---- MODULE Spec2Model ----
(***************************************************************************)
(* A model of sandpiper's analyzer (src/src/sandpiper/analyzer.py).        *)
(*                                                                         *)
(* Strings are sequences of one-character strings, so that split('.'),     *)
(* startswith, endswith, lower and splitext are computed as the code       *)
(* computes them.  None and '' are both the empty sequence (the code only  *)
(* tests them for truth).  A parsed file is a tree of ast nodes; a node    *)
(* carries its kind, name/id, lineno, col_offset, the alias list and       *)
(* module of an import, and its child nodes in ast.iter_child_nodes order  *)
(* (the position-less ctx/op/arguments helper nodes are left out: they are *)
(* leaves that no pass of the analyzer looks at).                          *)
(***************************************************************************)
EXTENDS Integers, Sequences, FiniteSets, TLC

VARIABLES
    \* ---- analyze_python_file ----
    pc,           \* position inside analyze_python_file
    source,       \* what open()/ast.parse() will give for filepath
    tree,         \* ast.parse(source)
    imported,     \* the local set `imported`
    definitions,  \* the local dict `definitions`: name -> list of lines
    result,       \* the local dict `result` (or the error dict)
    \* ---- analyze_python_directory ----
    dpc,          \* position inside analyze_python_directory
    opts,         \* include_imports, include_imported_code, exclude_tests
    directory,    \* the directory tree on disk
    walk,         \* os.walk's stack of directories still to be yielded
    todo,         \* files of the current directory not yet looked at
    results       \* the local dict `results`

vars == <<pc, source, tree, imported, definitions, result,
          dpc, opts, directory, walk, todo, results>>

fileVars == <<pc, source, tree, imported, definitions, result>>
dirVars == <<dpc, opts, directory, walk, todo, results>>

----------------------------------------------------------------------------
(* Bounds *)

\* Largest number of top-level statements of an analyzed file.
MaxStmts == 3
\* Largest number of files in the scanned root directory.
MaxFiles == 2

----------------------------------------------------------------------------
(* Strings *)

s_a == <<"a">>
s_b == <<"b">>
NoneStr == <<>>

\* s.split('.')[0]
RECURSIVE SplitFirst(_)
SplitFirst(s) ==
    IF s = <<>> \/ Head(s) = "." THEN <<>>
    ELSE <<Head(s)>> \o SplitFirst(Tail(s))

StartsWith(s, p) == Len(s) >= Len(p) /\ SubSeq(s, 1, Len(p)) = p
EndsWith(s, p) == Len(s) >= Len(p) /\ SubSeq(s, Len(s) - Len(p) + 1, Len(s)) = p

\* str.lower(), on the letters the modelled names use
LowerChar(c) ==
    CASE c = "T" -> "t" [] c = "E" -> "e" [] c = "S" -> "s"
      [] c = "A" -> "a" [] c = "B" -> "b" [] c = "P" -> "p" [] c = "Y" -> "y"
      [] OTHER -> c
Lower(s) == [i \in 1..Len(s) |-> LowerChar(s[i])]

\* os.path.splitext(name)[0]: up to the last dot, unless the name has no dot
\* or only leading dots
RECURSIVE LastDot(_)
LastDot(s) ==
    IF s = <<>> THEN 0
    ELSE IF s[Len(s)] = "." THEN Len(s)
    ELSE LastDot(SubSeq(s, 1, Len(s) - 1))
RECURSIVE LeadingDots(_)
LeadingDots(s) ==
    IF s = <<>> \/ Head(s) # "." THEN 0 ELSE 1 + LeadingDots(Tail(s))
SplitextRoot(s) ==
    IF LastDot(s) > LeadingDots(s) THEN SubSeq(s, 1, LastDot(s) - 1) ELSE s

----------------------------------------------------------------------------
(* ast nodes *)

Node(kind, name, lineno, col, children) ==
    [kind |-> kind, name |-> name, lineno |-> lineno, col_offset |-> col,
     names |-> <<>>, module |-> NoneStr, children |-> children]

Alias(name, asname) == [name |-> name, asname |-> asname]

ImportNode(lineno, names) ==
    [Node("Import", NoneStr, lineno, 0, <<>>) EXCEPT !.names = names]
ImportFromNode(lineno, module, names) ==
    [Node("ImportFrom", NoneStr, lineno, 0, <<>>)
        EXCEPT !.names = names, !.module = module]

NameNode(id, lineno, col) == Node("Name", id, lineno, col, <<>>)
CallOf(id, lineno, col) == Node("Call", NoneStr, lineno, col, <<NameNode(id, lineno, col)>>)

\* The statements analyzed files are made of; l is the line the statement
\* starts on.  Each is the tree ast.parse gives for the text in its comment.

\* import a.b
StImportDotted(l) == ImportNode(l, <<Alias(<<"a", ".", "b">>, NoneStr)>>)
\* import a as b
StImportAs(l) == ImportNode(l, <<Alias(s_a, s_b)>>)
\* from b import a
StFromImport(l) == ImportFromNode(l, s_b, <<Alias(s_a, NoneStr)>>)
\* class x:
\*     def y(self): pass
StClass(l, x, y) ==
    Node("ClassDef", x, l, 0,
         <<Node("FunctionDef", y, l + 1, 4, <<Node("Pass", NoneStr, l + 1, 17, <<>>)>>)>>)
\* def x():
\*     return y()
StFunc(l, x, y) ==
    Node("FunctionDef", x, l, 0,
         <<Node("Return", NoneStr, l + 1, 4, <<CallOf(y, l + 1, 11)>>)>>)
\* x = y()
StAssign(l, x, y) ==
    Node("Assign", NoneStr, l, 0, <<NameNode(x, l, 0), CallOf(y, l, 4)>>)
\* if a and b:
\*     b = b if a else b
StIf(l) ==
    Node("If", NoneStr, l, 0,
         <<Node("BoolOp", NoneStr, l, 3, <<NameNode(s_a, l, 3), NameNode(s_b, l, 9)>>),
           Node("Assign", NoneStr, l + 1, 4,
                <<NameNode(s_b, l + 1, 4),
                  Node("IfExp", NoneStr, l + 1, 8,
                       <<NameNode(s_a, l + 1, 13), NameNode(s_b, l + 1, 8),
                         NameNode(s_b, l + 1, 20)>>)>>)>>)
\* try:
\*     a()
\* except b: pass        (n handlers, n >= 1)
Handler(l) ==
    Node("ExceptHandler", NoneStr, l, 0,
         <<NameNode(s_b, l, 7), Node("Pass", NoneStr, l, 10, <<>>)>>)
StTry(l, n) ==
    Node("Try", NoneStr, l, 0,
         <<Node("Expr", NoneStr, l + 1, 4, <<CallOf(s_a, l + 1, 4)>>)>>
         \o [i \in 1..n |-> Handler(l + 1 + i)])
\* for a in b():
\*     while a: pass
StLoop(l) ==
    Node("For", NoneStr, l, 0,
         <<NameNode(s_a, l, 4), CallOf(s_b, l, 9),
           Node("While", NoneStr, l + 1, 4,
                <<NameNode(s_a, l + 1, 10), Node("Pass", NoneStr, l + 1, 13, <<>>)>>)>>)

\* The statement forms, as (form, x, y, n); Stmt builds form f at line l.
Forms ==
    {<<"import_dotted">>, <<"import_as">>, <<"from_import">>,
     <<"class", s_a, s_b>>, <<"class", s_b, s_a>>,
     <<"def", s_a, s_b>>, <<"def", s_b, s_a>>,
     <<"assign", s_a, s_b>>, <<"assign", s_b, s_a>>,
     <<"if">>, <<"try", 1>>, <<"try", 2>>, <<"loop">>}

Stmt(f, l) ==
    CASE f[1] = "import_dotted" -> StImportDotted(l)
      [] f[1] = "import_as" -> StImportAs(l)
      [] f[1] = "from_import" -> StFromImport(l)
      [] f[1] = "class" -> StClass(l, f[2], f[3])
      [] f[1] = "def" -> StFunc(l, f[2], f[3])
      [] f[1] = "assign" -> StAssign(l, f[2], f[3])
      [] f[1] = "if" -> StIf(l)
      [] f[1] = "try" -> StTry(l, f[2])
      [] f[1] = "loop" -> StLoop(l)

\* Number of source lines of a statement form.
Height(f) ==
    CASE f[1] \in {"import_dotted", "import_as", "from_import", "assign"} -> 1
      [] f[1] \in {"class", "def", "if", "loop"} -> 2
      [] f[1] = "try" -> 2 + f[2]

\* The module a sequence of statement forms parses to: statement i starts on
\* the line after statement i-1 ends.
RECURSIVE Body(_, _)
Body(fs, l) ==
    IF fs = <<>> THEN <<>>
    ELSE <<Stmt(Head(fs), l)>> \o Body(Tail(fs), l + Height(Head(fs)))
ModuleOf(fs) == Node("Module", NoneStr, 0, 0, Body(fs, 1))

----------------------------------------------------------------------------
(* Files on disk *)

\* What a file holds: the statement forms of its text, or text that
\* ast.parse rejects.
Unparseable == <<<<"invalid syntax">>>>
Parses(content) == \A i \in 1..Len(content) : content[i] \in Forms

RECURSIVE SeqsUpTo(_, _)
SeqsUpTo(S, n) ==
    IF n = 0 THEN {<<>>}
    ELSE LET shorter == SeqsUpTo(S, n - 1)
         IN  shorter \cup {Append(q, x) : q \in {r \in shorter : Len(r) = n - 1}, x \in S}

Contents == SeqsUpTo(Forms, MaxStmts) \cup {Unparseable}

\* os.path.basename of a path kept as the sequence of its components
Basename(path) == path[Len(path)]

----------------------------------------------------------------------------
(* Python dict helpers *)

EmptyDict == [k \in {} |-> <<>>]
Range(q) == {q[i] : i \in 1..Len(q)}

\* d.setdefault(name, []).append(line), cut to the last definition only
DefOverwrite(defs, name, line) ==
    IF name \in DOMAIN defs THEN [defs EXCEPT ![name] = <<line>>]
    ELSE defs @@ (name :> <<line>>)

\* d.setdefault(name, []).append(line)
DefAppend(defs, name, line) ==
    IF name \in DOMAIN defs THEN [defs EXCEPT ![name] = Append(@, line)]
    ELSE defs @@ (name :> <<line>>)

----------------------------------------------------------------------------
(* analyze_python_file *)

\* ast.walk: breadth-first, a deque extended by each node's children
RECURSIVE WalkQ(_)
WalkQ(queue) ==
    IF queue = <<>> THEN <<>>
    ELSE <<Head(queue)>> \o WalkQ(Tail(queue) \o Head(queue).children)

\* a depth-first, source-order traversal instead of ast.walk
RECURSIVE WalkStack(_)
WalkStack(stack) ==
    IF stack = <<>> THEN <<>>
    ELSE <<Head(stack)>> \o WalkStack(Head(stack).children \o Tail(stack))
WalkPreorder(node) == WalkStack(<<node>>)

Walk(node) == WalkQ(<<node>>)

\* ---- IMPORTS ----
BoundName(node, alias) ==
    IF alias.asname # NoneStr THEN alias.asname
    ELSE IF node.kind = "Import" THEN SplitFirst(alias.name)
    ELSE alias.name

ImportEntries(node) ==
    IF node.kind = "Import" THEN
        [i \in 1..Len(node.names) |->
            [name |-> node.names[i].name, alias |-> node.names[i].asname,
             line |-> node.lineno, from_import |-> FALSE]]
    ELSE IF node.kind = "ImportFrom" THEN
        [i \in 1..Len(node.names) |->
            [module |-> node.module, name |-> node.names[i].name,
             alias |-> node.names[i].asname, line |-> node.lineno,
             from_import |-> TRUE]]
    ELSE <<>>

RECURSIVE ImportsLoop(_, _, _)
ImportsLoop(nodes, imp, imports) ==
    IF nodes = <<>> THEN [imported |-> imp, imports |-> imports]
    ELSE LET node == Head(nodes)
         IN  IF node.kind \in {"Import", "ImportFrom"} THEN
                 ImportsLoop(Tail(nodes),
                     imp \cup {BoundName(node, node.names[i]) : i \in 1..Len(node.names)},
                     imports \o ImportEntries(node))
             ELSE ImportsLoop(Tail(nodes), imp, imports)

\* ---- CLASSES & METHODS ----
\* (docstring and parameters of an entry are not modelled)
RECURSIVE MethodEntries(_)
MethodEntries(body) ==
    IF body = <<>> THEN <<>>
    ELSE (IF Head(body).kind = "FunctionDef" THEN
              <<[name |-> Head(body).name, line |-> Head(body).lineno,
                 references |-> <<>>]>>
          ELSE <<>>) \o MethodEntries(Tail(body))

RECURSIVE DefAppendMethods(_, _)
DefAppendMethods(defs, methods) ==
    IF methods = <<>> THEN defs
    ELSE DefAppendMethods(DefAppend(defs, Head(methods).name, Head(methods).line),
                          Tail(methods))

RECURSIVE ClassesLoop(_, _, _, _)
ClassesLoop(body, imp, classes, defs) ==
    IF body = <<>> THEN [classes |-> classes, definitions |-> defs]
    ELSE LET node == Head(body)
         IN  IF node.kind = "ClassDef" /\ node.name \notin imp THEN
                 LET methods == MethodEntries(node.children)
                     cls_entry == [name |-> node.name, line_start |-> node.lineno,
                                   methods |-> methods, references |-> <<>>]
                 IN  ClassesLoop(Tail(body), imp, Append(classes, cls_entry),
                         DefAppendMethods(DefAppend(defs, node.name, node.lineno), methods))
             ELSE ClassesLoop(Tail(body), imp, classes, defs)

\* ---- FUNCTIONS ----
\* a method test that compares the name only
IsMethodByName(node, classes) ==
    \E c \in 1..Len(classes) : \E m \in 1..Len(classes[c].methods) :
        classes[c].methods[m].name = node.name

IsMethod(node, classes) ==
    \E c \in 1..Len(classes) : \E m \in 1..Len(classes[c].methods) :
        /\ classes[c].methods[m].name = node.name
        /\ classes[c].methods[m].line = node.lineno

RECURSIVE FunctionsLoop(_, _, _, _, _)
FunctionsLoop(body, imp, classes, functions, defs) ==
    IF body = <<>> THEN [functions |-> functions, definitions |-> defs]
    ELSE LET node == Head(body)
         IN  IF node.kind = "FunctionDef" /\ node.name \notin imp
                /\ ~IsMethod(node, classes) THEN
                 FunctionsLoop(Tail(body), imp, classes,
                     Append(functions, [name |-> node.name, line |-> node.lineno,
                                        references |-> <<>>]),
                     DefAppend(defs, node.name, node.lineno))
             ELSE FunctionsLoop(Tail(body), imp, classes, functions, defs)

\* ---- VARIABLES ----
\* a target test that forgets the imported names
IsTrackedTargetAnyName(target, imp) == target.kind = "Name"

IsTrackedTarget(target, imp) == target.kind = "Name" /\ target.name \notin imp

\* node.targets of an Assign: its children but the last one, the value
Targets(node) == SubSeq(node.children, 1, Len(node.children) - 1)

RECURSIVE TargetsLoop(_, _, _, _)
TargetsLoop(targets, imp, variables, defs) ==
    IF targets = <<>> THEN [variables |-> variables, definitions |-> defs]
    ELSE LET target == Head(targets)
         IN  IF IsTrackedTarget(target, imp) THEN
                 TargetsLoop(Tail(targets), imp,
                     Append(variables, [name |-> target.name, line |-> target.lineno,
                                        references |-> <<>>]),
                     DefAppend(defs, target.name, target.lineno))
             ELSE TargetsLoop(Tail(targets), imp, variables, defs)

RECURSIVE VariablesLoop(_, _, _, _)
VariablesLoop(body, imp, variables, defs) ==
    IF body = <<>> THEN [variables |-> variables, definitions |-> defs]
    ELSE LET node == Head(body)
         IN  IF node.kind = "Assign" THEN
                 LET r == TargetsLoop(Targets(node), imp, variables, defs)
                 IN  VariablesLoop(Tail(body), imp, r.variables, r.definitions)
             ELSE VariablesLoop(Tail(body), imp, variables, defs)

\* ---- REFERENCE SCANNING ----
\* (the context text of a reference, a function of its line, is not modelled)
RECURSIVE ReferencesLoop(_, _, _)
ReferencesLoop(nodes, defs, refs) ==
    IF nodes = <<>> THEN refs
    ELSE LET node == Head(nodes)
             ref_info == [line |-> node.lineno, column |-> node.col_offset]
         IN  IF /\ node.kind = "Name"
                /\ node.name \in DOMAIN defs
                /\ node.lineno \notin Range(defs[node.name]) THEN
                 ReferencesLoop(Tail(nodes), defs,
                     IF node.name \in DOMAIN refs
                     THEN [refs EXCEPT ![node.name] = Append(@, ref_info)]
                     ELSE refs @@ (node.name :> <<ref_info>>))
             ELSE ReferencesLoop(Tail(nodes), defs, refs)

\* ---- METRICS ----
ZeroComp ==
    [conditionals |-> 0, loops |-> 0, exceptions |-> 0, boolean_ops |-> 0,
     function_calls |-> 0]

CompAdd(x, y) == [k \in DOMAIN x |-> x[k] + y[k]]

\* len(n.handlers)
Handlers(n) == Cardinality({i \in 1..Len(n.children) : n.children[i].kind = "ExceptHandler"})

\* what visit(n) adds for n itself
CompOf(n) ==
    [conditionals |-> IF n.kind \in {"If", "IfExp"} THEN 1 ELSE 0,
     loops |-> IF n.kind \in {"For", "While", "AsyncFor"} THEN 1 ELSE 0,
     exceptions |-> IF n.kind = "Try" THEN 1 + Handlers(n) ELSE 0,
     boolean_ops |-> IF n.kind = "BoolOp" THEN 1 ELSE 0,
     function_calls |-> IF n.kind = "Call" THEN 1 ELSE 0]

RECURSIVE Visit(_)
RECURSIVE VisitAll(_)
VisitAll(children) ==
    IF children = <<>> THEN ZeroComp
    ELSE CompAdd(Visit(Head(children)), VisitAll(Tail(children)))
Visit(n) == CompAdd(CompOf(n), VisitAll(n.children))

\* a score that also counts the calls
ComplexityWithCalls(comp) ==
    1 + comp.conditionals + comp.loops + comp.exceptions + comp.boolean_ops
      + comp.function_calls

Complexity(comp) ==
    1 + comp.conditionals + comp.loops + comp.exceptions + comp.boolean_ops

Metrics(comp) ==
    [conditional_count |-> comp.conditionals, loop_count |-> comp.loops,
     detailed_complexity |-> comp, complexity |-> Complexity(comp)]

\* ---- SUMMARY ----
RECURSIVE MethodCount(_)
MethodCount(classes) ==
    IF classes = <<>> THEN 0
    ELSE Len(Head(classes).methods) + MethodCount(Tail(classes))

FileSummary(res) ==
    [class_count |-> Len(res.structure.classes),
     method_count |-> MethodCount(res.structure.classes),
     function_count |-> Len(res.structure.functions),
     import_count |-> Len(res.structure.imports),
     variable_count |-> Len(res.structure.variables),
     unused_count |-> IF "unused_code" \in DOMAIN res THEN Len(res.unused_code) ELSE 0]

\* ---- the function, pass by pass, on its locals ----
FileInfo(path) == [filename |-> Basename(path), path |-> path]

ErrorResult(path) == [file_info |-> FileInfo(path), error |-> "invalid syntax"]

NewResult(path) ==
    [file_info |-> FileInfo(path),
     structure |-> [imports |-> <<>>, classes |-> <<>>, functions |-> <<>>,
                    variables |-> <<>>],
     metrics |-> EmptyDict, references |-> EmptyDict, unused_code |-> <<>>]

Locals(t, imp, defs, res) ==
    [tree |-> t, imported |-> imp, definitions |-> defs, result |-> res]

AfterParse(path, content) ==
    Locals(ModuleOf(content), {}, EmptyDict, NewResult(path))

AfterImports(L) ==
    LET r == ImportsLoop(Walk(L.tree), L.imported, L.result.structure.imports)
    IN  [L EXCEPT !.imported = r.imported, !.result.structure.imports = r.imports]

AfterClasses(L) ==
    LET r == ClassesLoop(L.tree.children, L.imported, L.result.structure.classes,
                         L.definitions)
    IN  [L EXCEPT !.definitions = r.definitions, !.result.structure.classes = r.classes]

AfterFunctions(L) ==
    LET r == FunctionsLoop(L.tree.children, L.imported, L.result.structure.classes,
                           L.result.structure.functions, L.definitions)
    IN  [L EXCEPT !.definitions = r.definitions,
                  !.result.structure.functions = r.functions]

AfterVariables(L) ==
    LET r == VariablesLoop(L.tree.children, L.imported,
                           L.result.structure.variables, L.definitions)
    IN  [L EXCEPT !.definitions = r.definitions,
                  !.result.structure.variables = r.variables]

AfterReferences(L) ==
    [L EXCEPT !.result.references =
        ReferencesLoop(Walk(L.tree), L.definitions, L.result.references)]

AfterMetrics(L) == [L EXCEPT !.result.metrics = Metrics(Visit(L.tree))]

AfterSummary(L) ==
    [L EXCEPT !.result = L.result @@ ("summary" :> FileSummary(L.result))]

\* analyze_python_file(filepath), start to return
AnalyzeFile(path, content) ==
    IF ~Parses(content) THEN ErrorResult(path)
    ELSE AfterSummary(AfterMetrics(AfterReferences(AfterVariables(
             AfterFunctions(AfterClasses(AfterImports(
                 AfterParse(path, content)))))))).result

----------------------------------------------------------------------------
(* A call of analyze_python_file on one file, pass by pass *)

m_py == <<"m", ".", "p", "y">>

IdleDir ==
    /\ dpc = "idle"
    /\ opts = <<>>
    /\ directory = <<>>
    /\ walk = <<>>
    /\ todo = <<>>
    /\ results = <<>>

InitFile ==
    /\ pc = "open"
    /\ source \in [path : {<<m_py>>}, content : Contents]
    /\ tree = <<>>
    /\ imported = {}
    /\ definitions = EmptyDict
    /\ result = EmptyDict
    /\ IdleDir

SetLocals(L) ==
    /\ tree' = L.tree
    /\ imported' = L.imported
    /\ definitions' = L.definitions
    /\ result' = L.result

TheLocals == Locals(tree, imported, definitions, result)

\* the except branch: the error dict is returned
ParseFails ==
    /\ pc = "open"
    /\ ~Parses(source.content)
    /\ result' = ErrorResult(source.path)
    /\ pc' = "done"
    /\ UNCHANGED <<source, tree, imported, definitions, dirVars>>

ParseOk ==
    /\ pc = "open"
    /\ Parses(source.content)
    /\ SetLocals(AfterParse(source.path, source.content))
    /\ pc' = "imports"
    /\ UNCHANGED <<source, dirVars>>

ScanImports ==
    /\ pc = "imports"
    /\ SetLocals(AfterImports(TheLocals))
    /\ pc' = "classes"
    /\ UNCHANGED <<source, dirVars>>

ExtractClasses ==
    /\ pc = "classes"
    /\ SetLocals(AfterClasses(TheLocals))
    /\ pc' = "functions"
    /\ UNCHANGED <<source, dirVars>>

ExtractFunctions ==
    /\ pc = "functions"
    /\ SetLocals(AfterFunctions(TheLocals))
    /\ pc' = "variables"
    /\ UNCHANGED <<source, dirVars>>

ExtractVariables ==
    /\ pc = "variables"
    /\ SetLocals(AfterVariables(TheLocals))
    /\ pc' = "references"
    /\ UNCHANGED <<source, dirVars>>

ScanReferences ==
    /\ pc = "references"
    /\ SetLocals(AfterReferences(TheLocals))
    /\ pc' = "metrics"
    /\ UNCHANGED <<source, dirVars>>

ComputeMetrics ==
    /\ pc = "metrics"
    /\ SetLocals(AfterMetrics(TheLocals))
    /\ pc' = "summary"
    /\ UNCHANGED <<source, dirVars>>

Summarize ==
    /\ pc = "summary"
    /\ SetLocals(AfterSummary(TheLocals))
    /\ pc' = "done"
    /\ UNCHANGED <<source, dirVars>>

NextFile ==
    \/ ParseFails
    \/ ParseOk
    \/ ScanImports
    \/ ExtractClasses
    \/ ExtractFunctions
    \/ ExtractVariables
    \/ ScanReferences
    \/ ComputeMetrics
    \/ Summarize

SpecFile == InitFile /\ [][NextFile]_vars

\* the file was analyzed to the end without a parse error
Analyzed == pc = "done" /\ "error" \notin DOMAIN result

----------------------------------------------------------------------------
(* Properties of analyze_python_file *)

\* The nodes of a tree by position: the path of child indices from the root.
RECURSIVE Paths(_)
Paths(n) ==
    {<<>>} \cup UNION {{<<i>> \o p : p \in Paths(n.children[i])} : i \in 1..Len(n.children)}

RECURSIVE NodeAt(_, _)
NodeAt(n, p) == IF p = <<>> THEN n ELSE NodeAt(n.children[Head(p)], Tail(p))

PathsOfKind(kinds) == {p \in Paths(tree) : NodeAt(tree, p).kind \in kinds}

\* The names the import statements of the tree bind, at any depth.
BoundByImports ==
    UNION {LET n == NodeAt(tree, p)
           IN  {IF n.names[i].asname # <<>> THEN n.names[i].asname
                ELSE IF n.kind = "Import" THEN SplitFirst(n.names[i].name)
                ELSE n.names[i].name : i \in 1..Len(n.names)}
           : p \in PathsOfKind({"Import", "ImportFrom"})}

Structure == result.structure

\* The (name, line) pairs the structure records, by collection.
ClassDecls ==
    {<<Structure.classes[i].name, Structure.classes[i].line_start>> :
        i \in 1..Len(Structure.classes)}
MethodDecls ==
    UNION {{<<Structure.classes[i].methods[j].name, Structure.classes[i].methods[j].line>> :
              j \in 1..Len(Structure.classes[i].methods)} :
           i \in 1..Len(Structure.classes)}
FunctionDecls ==
    {<<Structure.functions[i].name, Structure.functions[i].line>> :
        i \in 1..Len(Structure.functions)}
VariableDecls ==
    {<<Structure.variables[i].name, Structure.variables[i].line>> :
        i \in 1..Len(Structure.variables)}
AllDecls == ClassDecls \cup MethodDecls \cup FunctionDecls \cup VariableDecls

RecordedLines(N) == {d[2] : d \in {e \in AllDecls : e[1] = N}}
RefLines(N) ==
    IF N \in DOMAIN result.references
    THEN {result.references[N][i].line : i \in 1..Len(result.references[N])}
    ELSE {}

\* C2: in an analyzed file no reference of a declared name N lies on a line
\* the structure records as a definition line of N, however many times N is
\* declared.
C2_NoSelfReference ==
    Analyzed => \A d \in AllDecls : RefLines(d[1]) \cap RecordedLines(d[1]) = {}

\* a name declared on two lines that is also referenced
C2_Witness ==
    /\ Analyzed
    /\ \E d \in AllDecls :
          /\ Cardinality(RecordedLines(d[1])) >= 2
          /\ RefLines(d[1]) # {}

\* C3: a name bound by an import of the file names no entry of classes,
\* functions or variables.
C3_ImportsShadow ==
    Analyzed =>
        \A d \in ClassDecls \cup FunctionDecls \cup VariableDecls :
            d[1] \notin BoundByImports

\* an imported name that a top-level class, function or assignment redeclares
C3_Witness ==
    /\ Analyzed
    /\ \E i \in 1..Len(tree.children) :
          LET n == tree.children[i]
          IN  \/ n.kind \in {"ClassDef", "FunctionDef"} /\ n.name \in BoundByImports
              \/ n.kind = "Assign" /\ n.children[1].name \in BoundByImports

\* the handler clauses of all the try nodes of the tree
HandlerPaths ==
    {p \in PathsOfKind({"ExceptHandler"}) :
        p # <<>> /\ NodeAt(tree, SubSeq(p, 1, Len(p) - 1)).kind = "Try"}

\* C4: complexity is 1 + conditionals + loops + exceptions + boolean_ops, each
\* counted over the nodes at every depth, a try with N handlers counting 1+N,
\* and the calls counting nothing.
C4_ComplexityFormula ==
    Analyzed =>
        /\ result.metrics.detailed_complexity.function_calls
              = Cardinality(PathsOfKind({"Call"}))
        /\ result.metrics.complexity
              = 1 + Cardinality(PathsOfKind({"If", "IfExp"}))
                  + Cardinality(PathsOfKind({"For", "While", "AsyncFor"}))
                  + Cardinality(PathsOfKind({"Try"})) + Cardinality(HandlerPaths)
                  + Cardinality(PathsOfKind({"BoolOp"}))

\* a file with calls, a try with two handlers and a nested conditional
C4_Witness ==
    /\ Analyzed
    /\ result.metrics.detailed_complexity.function_calls > 0
    /\ Cardinality(HandlerPaths) >= 2
    /\ \E p \in PathsOfKind({"IfExp", "While"}) : Len(p) >= 2

RefPairs(N) ==
    {<<i, j>> \in (1..Len(result.references[N])) \X (1..Len(result.references[N])) : i < j}

\* C7 as stated: the references of every name are in non-decreasing line
\* order.
C7_LineAscending ==
    Analyzed =>
        \A N \in DOMAIN result.references : \A ij \in RefPairs(N) :
            result.references[N][ij[1]].line <= result.references[N][ij[2]].line

\* the nesting depth of the identifier node a reference was made from
RefDepth(N, ref) ==
    Len(CHOOSE p \in PathsOfKind({"Name"}) :
            /\ NodeAt(tree, p).name = N
            /\ NodeAt(tree, p).lineno = ref.line
            /\ NodeAt(tree, p).col_offset = ref.column)

\* C7 amended: the references of every name are in the breadth-first order of
\* ast.walk, that is in non-decreasing nesting depth.
C7_DepthAscending ==
    Analyzed =>
        \A N \in DOMAIN result.references : \A ij \in RefPairs(N) :
            RefDepth(N, result.references[N][ij[1]])
                <= RefDepth(N, result.references[N][ij[2]])

\* a reference on a later line recorded before a deeper one on an earlier line
C7_Witness ==
    /\ Analyzed
    /\ \E N \in DOMAIN result.references : \E ij \in RefPairs(N) :
          /\ result.references[N][ij[1]].line > result.references[N][ij[2]].line
          /\ RefDepth(N, result.references[N][ij[1]])
                < RefDepth(N, result.references[N][ij[2]])

TopLevelFunctions ==
    {tree.children[i] : i \in {j \in 1..Len(tree.children) :
        /\ tree.children[j].kind = "FunctionDef"
        /\ tree.children[j].name \notin BoundByImports}}

\* C10: a top-level function whose name is not imported is left out of
\* functions exactly when an extracted method has its name and its line, and
\* no method entry is listed in functions.
C10_MethodDedup ==
    Analyzed =>
        /\ \A n \in TopLevelFunctions :
              (<<n.name, n.lineno>> \notin FunctionDecls)
                  <=> (<<n.name, n.lineno>> \in MethodDecls)
        /\ FunctionDecls \cap MethodDecls = {}

\* a listed top-level function that shares its name, not its line, with a method
C10_Witness ==
    /\ Analyzed
    /\ \E n \in TopLevelFunctions : \E m \in MethodDecls :
          /\ m[1] = n.name
          /\ m[2] # n.lineno
          /\ <<n.name, n.lineno>> \in FunctionDecls

----------------------------------------------------------------------------
(* analyze_python_directory *)

dot_py == <<".", "p", "y">>
test_ == <<"t", "e", "s", "t", "_">>
test == <<"t", "e", "s", "t">>
_test_py == <<"_", "t", "e", "s", "t", ".", "p", "y">>

ignore_dirs ==
    {<<".", "v", "e", "n", "v">>, <<"v", "e", "n", "v">>, <<"e", "n", "v">>,
     <<"_", "_", "p", "y", "c", "a", "c", "h", "e", "_", "_">>,
     <<".", "g", "i", "t">>}

\* dict.get(k, 0) / defaultdict(int)[k]
Get(d, k) == IF k \in DOMAIN d THEN d[k] ELSE 0

\* d[k] = v
Put(d, k, v) == [x \in DOMAIN d \cup {k} |-> IF x = k THEN v ELSE d[x]]

\* the dirs[:] of one os.walk step after both prunings
PrunedDirs(dirs, o) ==
    LET NotIgnored(d) == d.name \notin ignore_dirs
        NotTest(d) == ~StartsWith(Lower(d.name), test)
        dirs1 == IF ~o.include_imported_code THEN SelectSeq(dirs, NotIgnored) ELSE dirs
    IN  IF o.exclude_tests THEN SelectSeq(dirs1, NotTest) ELSE dirs1

\* the test of line 231: `A and B or C` is `(A and B) or C`
SkipsAsTest(file, o) ==
    \/ o.exclude_tests /\ StartsWith(Lower(file), test_)
    \/ EndsWith(Lower(file), _test_py)

\* file_result['structure'].pop('imports', None);
\* file_result['summary']['import_count'] = 0
StripImports(file_result) ==
    [file_result EXCEPT
        !.structure = [k \in DOMAIN file_result.structure \ {"imports"} |->
                          file_result.structure[k]],
        !.summary.import_count = 0]

\* results['summary'][k] = v for every k: the file's counters replace the totals
FoldOverwrite(summary, file_summary) ==
    [k \in DOMAIN summary \cup DOMAIN file_summary |->
        IF k \in DOMAIN file_summary THEN file_summary[k] ELSE summary[k]]

\* for k, v in file_result['summary'].items(): results['summary'][k] += v
Fold(summary, file_summary) ==
    [k \in DOMAIN summary \cup DOMAIN file_summary |->
        IF k \in DOMAIN file_summary THEN Get(summary, k) + file_summary[k]
        ELSE summary[k]]

\* len(results['files']) or 1
TotalFiles(files) == IF Len(files) = 0 THEN 1 ELSE Len(files)

\* sum(f['metrics'].get('complexity', 0) for f in files)
RECURSIVE TotalComplexity(_)
TotalComplexity(files) ==
    IF files = <<>> THEN 0
    ELSE Get(Head(files).metrics, "complexity") + TotalComplexity(Tail(files))

\* total / n cut to 2 decimals instead of rounded
Truncate2(total, n) == (100 * total) \div n

\* round(total / n, 2), in hundredths.  The quotient is the double nearest
\* to total/n and round() rounds its exact value, ties to even; a tie at the
\* third decimal is an odd multiple of 1/8, which a double holds exactly.
Round2(total, n) ==
    LET q == (100 * total) \div n
        r == (100 * total) % n
    IN  IF 2 * r > n THEN q + 1
        ELSE IF 2 * r < n THEN q
        ELSE IF q % 2 = 0 THEN q ELSE q + 1

\* imp.get('module', imp.get('name', '')).split('.')[0]
ImportRoot(imp) ==
    SplitFirst(IF "module" \in DOMAIN imp THEN imp.module
               ELSE IF "name" \in DOMAIN imp THEN imp.name ELSE <<>>)

\* f.get('structure', {}).get('imports', [])
ImportsOfResult(f) ==
    IF "structure" \in DOMAIN f /\ "imports" \in DOMAIN f.structure
    THEN f.structure.imports ELSE <<>>

\* the inner loop of find_module_dependencies for the file called name
RECURSIVE DepsOfFile(_, _, _)
DepsOfFile(imports, name, deps) ==
    IF imports = <<>> THEN deps
    ELSE LET mod == ImportRoot(Head(imports))
         IN  IF /\ mod # <<>>
                /\ mod # name
                /\ mod \in DOMAIN deps
                /\ mod \notin Range(deps[name])
             THEN DepsOfFile(Tail(imports), name, [deps EXCEPT ![name] = Append(@, mod)])
             ELSE DepsOfFile(Tail(imports), name, deps)

RECURSIVE DepsLoop(_, _)
DepsLoop(files, deps) ==
    IF files = <<>> THEN deps
    ELSE LET f == Head(files)
             name == SplitextRoot(f.file_info.filename)
         IN  DepsLoop(Tail(files),
                      DepsOfFile(ImportsOfResult(f), name, Put(deps, name, <<>>)))

find_module_dependencies(files) == DepsLoop(files, EmptyDict)

----------------------------------------------------------------------------
(* A call of analyze_python_directory, one os.walk step or file at a time *)

a_py == <<"a", ".", "p", "y">>
b_py == <<"b", ".", "p", "y">>
a_test_py == <<"a", "_", "t", "e", "s", "t", ".", "p", "y">>
Test_b_py == <<"T", "e", "s", "t", "_", "b", ".", "p", "y">>
n_txt == <<"n", ".", "t", "x", "t">>
proj == <<"p", "r", "o", "j">>
pkg == <<"p", "k", "g">>
venv == <<"v", "e", "n", "v">>
Tests == <<"T", "e", "s", "t", "s">>

File(name, content) == [name |-> name, content |-> content]

\* The files the scanned directories are made of.
DiskFiles ==
    {File(a_py, <<<<"from_import">>, <<"if">>>>),
     File(a_py, Unparseable),
     File(b_py, <<<<"import_dotted">>, <<"class", s_b, s_a>>>>),
     File(b_py, <<<<"def", s_a, s_b>>, <<"loop">>>>),
     File(a_test_py, <<<<"assign", s_a, s_b>>>>),
     File(Test_b_py, <<<<"try", 2>>>>),
     File(n_txt, <<>>)}

SubFiles ==
    {File(a_py, <<<<"from_import">>, <<"if">>>>),
     File(b_py, <<<<"def", s_a, s_b>>, <<"loop">>>>)}

DistinctNames(fs) ==
    \A i, j \in 1..Len(fs) : i # j => fs[i].name # fs[j].name

\* the listings of the root directory, in every order os.walk may give them
FileLists == {fs \in SeqsUpTo(DiskFiles, MaxFiles) : DistinctNames(fs)}

Dir(name, files, dirs) == [name |-> name, files |-> files, dirs |-> dirs]

SubdirLists ==
    {<<>>} \cup {<<Dir(d, <<f>>, <<>>)>> : d \in {pkg, venv, Tests}, f \in SubFiles}

Directories == {Dir(proj, fs, ds) : fs \in FileLists, ds \in SubdirLists}

Options ==
    [include_imports : BOOLEAN, include_imported_code : BOOLEAN,
     exclude_tests : BOOLEAN]

IdleFile ==
    /\ pc = "idle"
    /\ source = <<>>
    /\ tree = <<>>
    /\ imported = {}
    /\ definitions = EmptyDict
    /\ result = EmptyDict

InitDir ==
    /\ dpc = "walk"
    /\ opts \in Options
    /\ directory \in Directories
    /\ walk = <<[root |-> <<directory.name>>, dir |-> directory]>>
    /\ todo = <<>>
    /\ results = [directory |-> <<directory.name>>, files |-> <<>>,
                  summary |-> EmptyDict, unused_code |-> <<>>]
    /\ IdleFile

\* os.walk yields the next directory, top-down; the two prunings of dirs[:]
\* decide which subdirectories it will descend into
WalkNext ==
    /\ dpc = "walk"
    /\ todo = <<>>
    /\ walk # <<>>
    /\ LET root == Head(walk).root
           d == Head(walk).dir
           dirs == PrunedDirs(d.dirs, opts)
       IN  /\ walk' = [i \in 1..Len(dirs) |->
                          [root |-> Append(root, dirs[i].name), dir |-> dirs[i]]]
                      \o Tail(walk)
           /\ todo' = [i \in 1..Len(d.files) |-> [root |-> root, file |-> d.files[i]]]
    /\ UNCHANGED <<dpc, opts, directory, results, fileVars>>

\* if not file.endswith('.py'): continue
SkipNotPython ==
    /\ dpc = "walk"
    /\ todo # <<>>
    /\ ~EndsWith(Head(todo).file.name, dot_py)
    /\ todo' = Tail(todo)
    /\ UNCHANGED <<dpc, opts, directory, walk, results, fileVars>>

\* the `Skip test files` continue
SkipTestFile ==
    /\ dpc = "walk"
    /\ todo # <<>>
    /\ EndsWith(Head(todo).file.name, dot_py)
    /\ SkipsAsTest(Head(todo).file.name, opts)
    /\ todo' = Tail(todo)
    /\ UNCHANGED <<dpc, opts, directory, walk, results, fileVars>>

Candidate ==
    /\ dpc = "walk"
    /\ todo # <<>>
    /\ EndsWith(Head(todo).file.name, dot_py)
    /\ ~SkipsAsTest(Head(todo).file.name, opts)

\* os.path.join(root, file) and analyze_python_file on it
HeadResult ==
    AnalyzeFile(Append(Head(todo).root, Head(todo).file.name), Head(todo).file.content)

\* a file analyzed, appended and folded into the totals
AnalyzeAndFold ==
    /\ Candidate
    /\ LET file_result == HeadResult
       IN  /\ "structure" \in DOMAIN file_result
           /\ "summary" \in DOMAIN file_result
           /\ LET kept == IF ~opts.include_imports THEN StripImports(file_result)
                          ELSE file_result
              IN  results' = [results EXCEPT
                      !.files = Append(@, kept),
                      !.summary = Fold(@, kept.summary)]
    /\ todo' = Tail(todo)
    /\ UNCHANGED <<dpc, opts, directory, walk, fileVars>>

\* the error dict has no 'structure' and no 'summary': the KeyError leaves
\* analyze_python_directory, before the append when the imports are
\* stripped and after it otherwise
AnalyzeRaises ==
    /\ Candidate
    /\ LET file_result == HeadResult
       IN  /\ ~("structure" \in DOMAIN file_result /\ "summary" \in DOMAIN file_result)
           /\ results' =
                 IF ~opts.include_imports /\ "structure" \notin DOMAIN file_result
                 THEN results
                 ELSE [results EXCEPT !.files = Append(@, file_result)]
    /\ dpc' = "raised"
    /\ UNCHANGED <<opts, directory, walk, todo, fileVars>>

\* after the walk: avg_complexity (in hundredths) and module_dependencies
Finish ==
    /\ dpc = "walk"
    /\ todo = <<>>
    /\ walk = <<>>
    /\ IF \E i \in 1..Len(results.files) : "metrics" \notin DOMAIN results.files[i]
       THEN dpc' = "raised" /\ UNCHANGED results
       ELSE /\ dpc' = "done"
            /\ results' =
                  [results EXCEPT !.summary =
                      Put(@, "avg_complexity",
                          Round2(TotalComplexity(results.files), TotalFiles(results.files)))]
                  @@ ("module_dependencies" :> find_module_dependencies(results.files))
    /\ UNCHANGED <<opts, directory, walk, todo, fileVars>>

NextDir ==
    \/ WalkNext
    \/ SkipNotPython
    \/ SkipTestFile
    \/ AnalyzeAndFold
    \/ AnalyzeRaises
    \/ Finish

SpecDir == InitDir /\ [][NextDir]_vars

----------------------------------------------------------------------------
(* Properties of analyze_python_directory *)

Counters ==
    {"class_count", "method_count", "function_count", "import_count",
     "variable_count", "unused_count"}

\* the content of the file at a path below a directory
RECURSIVE Lookup(_, _)
Lookup(dir, rel) ==
    IF Len(rel) = 1
    THEN (CHOOSE f \in Range(dir.files) : f.name = rel[1]).content
    ELSE Lookup(CHOOSE d \in Range(dir.dirs) : d.name = rel[1], Tail(rel))

ContentAt(path) == Lookup(directory, Tail(path))

\* what analyzing the file at a path alone gives
AloneResult(path) == AnalyzeFile(path, ContentAt(path))
AloneCounter(path, k) ==
    IF k = "import_count" /\ ~opts.include_imports THEN 0
    ELSE AloneResult(path).summary[k]

AnalyzedPaths == {results.files[i].file_info.path : i \in 1..Len(results.files)}

RECURSIVE SumCounter(_, _)
SumCounter(S, k) ==
    IF S = {} THEN 0
    ELSE LET p == CHOOSE x \in S : TRUE
         IN  AloneCounter(p, k) + SumCounter(S \ {p}, k)

RECURSIVE SumComplexity(_)
SumComplexity(S) ==
    IF S = {} THEN 0
    ELSE LET p == CHOOSE x \in S : TRUE
         IN  AloneResult(p).metrics.complexity + SumComplexity(S \ {p})

AtLeastOne(n) == IF n = 0 THEN 1 ELSE n

\* h is x/n rounded to the nearest integer
Nearest(h, x, n) == 2 * (IF x >= h * n THEN x - h * n ELSE h * n - x) <= n

\* the files and paths of the directories the walk descends into
RECURSIVE Traversed(_, _)
Traversed(dir, root) ==
    {[path |-> Append(root, f.name), name |-> f.name, content |-> f.content] :
        f \in Range(dir.files)}
    \cup UNION {Traversed(d, Append(root, d.name)) : d \in Range(PrunedDirs(dir.dirs, opts))}

TraversedFiles == Traversed(directory, <<directory.name>>)
PythonFiles == {f \in TraversedFiles : EndsWith(f.name, dot_py)}
CandidateFiles == {f \in PythonFiles : ~SkipsAsTest(f.name, opts)}

\* C1 as stated: a file that fails to parse never aborts the scan; it is
\* listed with an error field, the other files are analyzed, and the counters
\* are the sums over the files that parse.
C1_BadFileNeverAborts ==
    /\ dpc # "raised"
    /\ dpc = "done" =>
          /\ \A f \in CandidateFiles :
                \E i \in 1..Len(results.files) :
                    /\ results.files[i].file_info.path = f.path
                    /\ ~Parses(f.content) <=> "error" \in DOMAIN results.files[i]
          /\ \A k \in Counters :
                Get(results.summary, k)
                    = SumCounter({f.path : f \in {g \in CandidateFiles : Parses(g.content)}}, k)

\* C5: the final counters and avg_complexity are a function of the set of
\* files analyzed, whatever the order they were visited and folded in.
C5_OrderIndependent ==
    dpc = "done" =>
        /\ Cardinality(AnalyzedPaths) = Len(results.files)
        /\ \A k \in Counters : Get(results.summary, k) = SumCounter(AnalyzedPaths, k)
        /\ results.summary.avg_complexity
              = Round2(SumComplexity(AnalyzedPaths), AtLeastOne(Cardinality(AnalyzedPaths)))

\* two files with different counters were folded
C5_Witness ==
    /\ dpc = "done"
    /\ Len(results.files) >= 2
    /\ \E i, j \in 1..Len(results.files) :
          /\ results.files[i].summary # results.files[j].summary
          /\ results.files[i].metrics.complexity # results.files[j].metrics.complexity

\* an import of the file on disk names this root module
ImportsRoot(content, mod) ==
    LET t == ModuleOf(content)
    IN  \E p \in Paths(t) :
           LET n == NodeAt(t, p)
           IN  \/ n.kind = "Import"
                  /\ \E i \in 1..Len(n.names) : SplitFirst(n.names[i].name) = mod
               \/ n.kind = "ImportFrom" /\ SplitFirst(n.module) = mod

ModuleName(f) == SplitextRoot(f.file_info.filename)

\* C6 as stated: B is listed under A exactly when A imports B's module name,
\* for any two analyzed files with different module names, in any traversal
\* order and for any include_imports; no module lists itself.
C6_DependenciesMatchImports ==
    dpc = "done" =>
        /\ \A i, j \in 1..Len(results.files) :
              LET A == results.files[i]
                  B == results.files[j]
              IN  ModuleName(A) # ModuleName(B) =>
                      (ModuleName(B) \in Range(results.module_dependencies[ModuleName(A)])
                          <=> ImportsRoot(ContentAt(A.file_info.path), ModuleName(B)))
        /\ \A m \in DOMAIN results.module_dependencies :
              m \notin Range(results.module_dependencies[m])

\* C8 as stated: without exclude_tests every .py file of a traversed
\* directory is analyzed, whatever its name; with it, test_*.py and *_test.py
\* files and directories named test* are skipped.
C8_TestFilterOnlyWhenAsked ==
    dpc = "done" =>
        /\ ~opts.exclude_tests => \A f \in PythonFiles : f.path \in AnalyzedPaths
        /\ opts.exclude_tests =>
              \A p \in AnalyzedPaths :
                  /\ ~StartsWith(p[Len(p)], test_)
                  /\ ~EndsWith(p[Len(p)], _test_py)
                  /\ \A i \in 2..(Len(p) - 1) : ~StartsWith(Lower(p[i]), test)

\* C9: on completion avg_complexity is the analyzed files' total complexity
\* over max(number of files, 1), rounded to 2 decimals; a directory without
\* candidate files does not fail and gives 0.0, [] and {}.
C9_AverageComplexity ==
    /\ dpc = "done" =>
          Nearest(results.summary.avg_complexity, 100 * SumComplexity(AnalyzedPaths),
                  AtLeastOne(Cardinality(AnalyzedPaths)))
    /\ CandidateFiles = {} =>
          /\ dpc # "raised"
          /\ dpc = "done" =>
                /\ results.summary.avg_complexity = 0
                /\ results.files = <<>>
                /\ results.module_dependencies = EmptyDict

\* three files whose average has more than two decimals
C9_Witness ==
    /\ dpc = "done"
    /\ Len(results.files) >= 3
    /\ (100 * SumComplexity(AnalyzedPaths)) % Len(results.files) # 0

====
